---- MODULE Spec2Model ----
(***************************************************************************)
(* Model of src/updater.py: the version-tag rewriter.                      *)
(*                                                                         *)
(* A file's content is a sequence of characters.  Characters are kept by   *)
(* the classes the regular expression distinguishes: "*" (asterisk),       *)
(* " ", "CR", "LF" (whitespace, \s), "1", "2" (members of [\w\.\-]),       *)
(* "+" (a character in none of the classes), "BAD" (a byte that is not     *)
(* valid UTF-8) and "@version" (the eight-character literal, kept as one   *)
(* unit because the pattern only ever consumes it whole).                  *)
(* A path is the sequence of the characters of its name.                   *)
(***************************************************************************)
EXTENDS Integers, Sequences, FiniteSets

(* ------------------------------ bounds --------------------------------- *)
\* fragments a generated file content is made of
MaxChunks == 2
\* characters of a generated version argument
MaxVerLen == 2
\* entries of a generated directory tree
MaxFiles == 2
\* successive invocations of the script on the same tree
MaxRuns == 2

VARIABLES
    argv,        \* sys.argv[1:], the arguments after the program name
    fs,          \* the tree under ".": path -> [kind, perm, data]
    start,       \* fs as it was when the current run began
    run,         \* number of the current invocation
    pc,          \* position of the script
    new_version, \* line 9
    seen,        \* entries target_dir.rglob("*") has yielded so far
    cur,         \* file_path of the loop body
    text,        \* line 18
    new_text,    \* line 26
    count,       \* line 26
    out,         \* standard output of the current run
    exit_status, \* exit status of the current run (meaningful at pc = "exit")
    reads,       \* paths read_text was called on in the current run
    writes,      \* paths write_text opened (truncated) in the current run
    prev_writes, \* writes of the previous run
    prev_status  \* exit status of the previous run

vars == <<argv, fs, start, run, pc, new_version, seen, cur, text, new_text,
          count, out, exit_status, reads, writes, prev_writes, prev_status>>

(* ------------------------- character classes --------------------------- *)
\* \*
Stars == {"*"}
\* \s
Spaces == {" ", "CR", "LF"}
\* [\w\.\-]
TokenChars == {"1", "2"}
\* the literal @version
Literal == "@version"

(* ------------------------------ paths ---------------------------------- *)
\* line 11
file_exts == { <<".", "j", "s">>, <<".", "t", "s">>, <<".", "p", "y">>,
               <<".", "s", "h">>, <<".", "c", "p", "p">>,
               <<".", "j", "a", "v", "a">>, <<".", "c", "s", "s">> }

\* str.rfind('.') as a 1-based index, 0 when there is no dot
RFindDot(name) ==
    LET dots == {i \in 1..Len(name) : name[i] = "."}
    IN IF dots = {} THEN 0 ELSE CHOOSE i \in dots : \A j \in dots : j <= i

\* pathlib's PurePath.suffix: i = name.rfind('.'); name[i:] if 0 < i < len-1
\* (0-based), that is 1 < i < Len(name) 1-based; '' otherwise
Suffix(name) ==
    LET i == RFindDot(name)
    IN IF 1 < i /\ i < Len(name) THEN SubSeq(name, i, Len(name)) ELSE <<>>

\* variant of Eligible: the name ends with a listed extension (str.endswith)
EligibleEndsWith(p) ==
    \E e \in file_exts :
        /\ Len(p) >= Len(e)
        /\ SubSeq(p, Len(p) - Len(e) + 1, Len(p)) = e
\* line 16: file_path.suffix in file_exts
Eligible(p) == Suffix(p) \in file_exts

(* --------------------------- the pattern ------------------------------- *)
\* the first index j >= i at which t[j] is not in class S (Len(t)+1 at the end):
\* where a greedy S* that starts at i stops
RunEnd(t, i, S) ==
    IF i > Len(t) THEN i
    ELSE CHOOSE j \in i..(Len(t) + 1) :
             /\ \A k \in i..(j - 1) : t[k] \in S
             /\ (j = Len(t) + 1 \/ t[j] \notin S)

\* version_pattern.match at index i: (\*+\s*@version\s+)([\w\.\-]+).
\* Every quantified class is disjoint from what follows it, so giving back
\* characters never helps and the greedy match is the only candidate.
\* g2 is where group 2 starts, end the index after the match.
MatchAt(t, i) ==
    LET a == RunEnd(t, i, Stars)
        b == RunEnd(t, a, Spaces)
        c == b + 1
        d == RunEnd(t, c, Spaces)
        e == RunEnd(t, d, TokenChars)
    IN [ok  |-> /\ a > i
                /\ b <= Len(t) /\ t[b] = Literal
                /\ d > c
                /\ e > d,
        g2  |-> d,
        end |-> e]

\* variant of replacer: the whole match, group 2 included, then new_version
replacerKeepsToken(t, m, i, v) == SubSeq(t, i, m.end - 1) \o v
\* lines 23-24: group 1 followed by new_version
replacer(t, m, i, v) == SubSeq(t, i, m.g2 - 1) \o v

\* line 26: version_pattern.subn(replacer, text) from index i on: scan left
\* to right, replace each match and resume after it
RECURSIVE SubnFrom(_, _, _)
SubnFrom(t, i, v) ==
    IF i > Len(t) THEN [text |-> <<>>, count |-> 0]
    ELSE LET m == MatchAt(t, i)
         IN IF m.ok
            THEN LET r == SubnFrom(t, m.end, v)
                 IN [text  |-> replacer(t, m, i, v) \o r.text,
                     count |-> r.count + 1]
            ELSE LET r == SubnFrom(t, i + 1, v)
                 IN [text |-> <<t[i]>> \o r.text, count |-> r.count]

subn(t, v) == SubnFrom(t, 1, v)

(* ----------------------- reading and writing --------------------------- *)
\* text mode with newline=None (the default of read_text): "\r\n" and a lone
\* "\r" both become "\n"
RECURSIVE UniversalNewlines(_)
UniversalNewlines(b) ==
    IF b = <<>> THEN <<>>
    ELSE IF b[1] = "CR"
         THEN IF Len(b) >= 2 /\ b[2] = "LF"
              THEN <<"LF">> \o UniversalNewlines(SubSeq(b, 3, Len(b)))
              ELSE <<"LF">> \o UniversalNewlines(Tail(b))
         ELSE <<b[1]>> \o UniversalNewlines(Tail(b))

\* line 18: file_path.read_text(encoding="utf-8") raises for a directory
\* (IsADirectoryError), without read permission (PermissionError) and on bytes
\* that are not UTF-8 (UnicodeDecodeError)
read_text(e) ==
    IF e.kind = "file" /\ e.perm # "none" /\ \A k \in 1..Len(e.data) : e.data[k] # "BAD"
    THEN [ok |-> TRUE, text |-> UniversalNewlines(e.data)]
    ELSE [ok |-> FALSE, text |-> <<>>]

\* os.linesep of the platform the script runs on (POSIX)
linesep == <<"LF">>

\* text mode with newline=None (the default of write_text): "\n" is written
\* as os.linesep
RECURSIVE WriteNewlines(_)
WriteNewlines(t) ==
    IF t = <<>> THEN <<>>
    ELSE (IF t[1] = "LF" THEN linesep ELSE <<t[1]>>) \o WriteNewlines(Tail(t))

(* ----------------------------- output ---------------------------------- *)
\* line 6
UsageLine == [kind |-> "Usage", path |-> <<>>]
\* line 20
SkippedLine(p) == [kind |-> "Skipped", path |-> p]
\* line 30
UpdatedLine(p) == [kind |-> "Updated", path |-> p]

(* --------------------------- initial states ---------------------------- *)
\* a whole version tag, as in "* @version 1"
TagChunk == <<"*", " ", Literal, " ", "1">>
Chunks == { <<"*">>, <<" ">>, <<Literal>>, <<"1">>, <<"+">>, <<"CR">>,
            <<"LF">>, TagChunk }

RECURSIVE Concats(_)
Concats(n) ==
    IF n = 0 THEN {<<>>}
    ELSE LET S == Concats(n - 1) IN S \cup {c \o t : c \in Chunks, t \in S}

\* file contents of the single-file specification
Texts == Concats(MaxChunks)

VerChars == {"2", " "}
\* version arguments of the single-file specification
Versions == UNION {[1..n -> VerChars] : n \in 0..MaxVerLen}

\* paths of the tree specification
Names == { <<"a", ".", "p", "y">>, <<"b", ".", "j", "s">>,
           <<"n", ".", "t", "x", "t">>, <<"c", ".", "P", "Y">>,
           <<".", "p", "y">> }
\* file contents of the tree specification: no tag, a tag, a tag after a
\* carriage return, bytes that are not UTF-8
TreeTexts == { <<"+">>, TagChunk, <<"CR">> \o TagChunk, <<"BAD">> }
Entries == [kind : {"file"}, perm : {"rw", "ro", "none"}, data : TreeTexts]
               \cup {[kind |-> "dir", perm |-> "rw", data |-> <<>>]}
Trees == UNION {[S -> Entries] : S \in {T \in SUBSET Names : Cardinality(T) <= MaxFiles}}
ArgLists == {<<>>, <<<<"2">>>>, <<<<"2">>, <<"2">>>>}

InitRest ==
    /\ start = fs
    /\ run = 1
    /\ pc = "start"
    /\ new_version = <<>>
    /\ seen = {}
    /\ cur = <<>>
    /\ text = <<>>
    /\ new_text = <<>>
    /\ count = 0
    /\ out = <<>>
    /\ exit_status = -1
    /\ reads = {}
    /\ writes = {}
    /\ prev_writes = {}
    /\ prev_status = -1

\* any tree of at most MaxFiles entries, any number of arguments
Init ==
    /\ argv \in ArgLists
    /\ fs \in Trees
    /\ InitRest

\* one readable, writable, eligible file with any content, any one argument
InitText ==
    /\ argv \in {<<v>> : v \in Versions}
    /\ fs \in {[p \in {<<"a", ".", "p", "y">>} |-> [kind |-> "file", perm |-> "rw", data |-> t]]
                  : t \in Texts}
    /\ InitRest

(* ------------------------------ actions -------------------------------- *)
\* variant of ArgsOk: len(sys.argv) < 2 is the only arity refused
ArgsOkAtLeastOne(a) == Len(a) >= 1
\* line 5: len(sys.argv) != 2 is refused
ArgsOk(a) == Len(a) = 1

\* lines 5-9
CheckArgs ==
    /\ pc = "start"
    /\ IF ~ArgsOk(argv)
       THEN /\ out' = Append(out, UsageLine)
            /\ exit_status' = 1
            /\ pc' = "exit"
            /\ UNCHANGED new_version
       ELSE /\ new_version' = argv[1]
            /\ pc' = "loop"
            /\ UNCHANGED <<out, exit_status>>
    /\ UNCHANGED <<argv, fs, start, run, seen, cur, text, new_text, count,
                   reads, writes, prev_writes, prev_status>>

\* lines 15-16: rglob yields the next entry, in any order; the suffix test
NextEntry ==
    /\ pc = "loop"
    /\ \E p \in DOMAIN fs \ seen :
          /\ seen' = seen \cup {p}
          /\ cur' = p
          /\ pc' = IF Eligible(p) THEN "read" ELSE "loop"
    /\ UNCHANGED <<argv, fs, start, run, new_version, text, new_text, count,
                   out, exit_status, reads, writes, prev_writes, prev_status>>

\* variant of AfterReadError: the read error ends the run
AfterReadErrorStop == "exit"
\* line 21: continue, the loop goes on to the next entry
AfterReadError == "loop"

\* lines 17-21
ReadText ==
    /\ pc = "read"
    /\ reads' = reads \cup {cur}
    /\ LET r == read_text(fs[cur])
       IN IF r.ok
          THEN /\ text' = r.text
               /\ pc' = "subn"
               /\ UNCHANGED out
          ELSE /\ out' = Append(out, SkippedLine(cur))
               /\ pc' = AfterReadError
               /\ UNCHANGED text
    /\ UNCHANGED <<argv, fs, start, run, new_version, seen, cur, new_text,
                   count, exit_status, writes, prev_writes, prev_status>>

\* variant of ShouldWrite: the file is written whatever the count
ShouldWriteAlways(n) == TRUE
\* line 28: count > 0
ShouldWrite(n) == n > 0

\* lines 26-28
Substitute ==
    /\ pc = "subn"
    /\ LET r == subn(text, new_version)
       IN /\ new_text' = r.text
          /\ count' = r.count
          /\ pc' = IF ShouldWrite(r.count) THEN "write" ELSE "loop"
    /\ UNCHANGED <<argv, fs, start, run, new_version, seen, cur, text, out,
                   exit_status, reads, writes, prev_writes, prev_status>>

\* line 29, first half: write_text opens the file with mode "w", which
\* truncates it; without write permission open raises PermissionError, which
\* nothing catches: traceback on stderr, exit status 1
WriteOpen ==
    /\ pc = "write"
    /\ IF fs[cur].perm = "rw"
       THEN /\ fs' = [fs EXCEPT ![cur].data = <<>>]
            /\ writes' = writes \cup {cur}
            /\ pc' = "flush"
            /\ UNCHANGED exit_status
       ELSE /\ exit_status' = 1
            /\ pc' = "exit"
            /\ UNCHANGED <<fs, writes>>
    /\ UNCHANGED <<argv, start, run, new_version, seen, cur, text, new_text,
                   count, out, reads, prev_writes, prev_status>>

\* variant of FlushedData: the last character is not written
FlushedDataPartial(t) == IF t = <<>> THEN <<>> ELSE SubSeq(t, 1, Len(t) - 1)
\* line 29: the text as write_text encodes it
FlushedData(t) == WriteNewlines(t)

\* line 29, second half: the data is written and the file closed
WriteFlush ==
    /\ pc = "flush"
    /\ fs' = [fs EXCEPT ![cur].data = FlushedData(new_text)]
    /\ pc' = "print"
    /\ UNCHANGED <<argv, start, run, new_version, seen, cur, text, new_text,
                   count, out, exit_status, reads, writes, prev_writes, prev_status>>

\* line 30
PrintUpdated ==
    /\ pc = "print"
    /\ out' = Append(out, UpdatedLine(cur))
    /\ pc' = "loop"
    /\ UNCHANGED <<argv, fs, start, run, new_version, seen, cur, text, new_text,
                   count, exit_status, reads, writes, prev_writes, prev_status>>

\* line 15, the iterator is exhausted: the script falls off its end, status 0
Finish ==
    /\ pc = "loop"
    /\ seen = DOMAIN fs
    /\ exit_status' = 0
    /\ pc' = "exit"
    /\ UNCHANGED <<argv, fs, start, run, new_version, seen, cur, text, new_text,
                   count, out, reads, writes, prev_writes, prev_status>>

\* the script is invoked again, with the same arguments, on the tree as the
\* previous run left it
Rerun ==
    /\ pc = "exit"
    /\ run < MaxRuns
    /\ run' = run + 1
    /\ start' = fs
    /\ prev_writes' = writes
    /\ prev_status' = exit_status
    /\ pc' = "start"
    /\ new_version' = <<>>
    /\ seen' = {}
    /\ cur' = <<>>
    /\ text' = <<>>
    /\ new_text' = <<>>
    /\ count' = 0
    /\ out' = <<>>
    /\ exit_status' = -1
    /\ reads' = {}
    /\ writes' = {}
    /\ UNCHANGED <<argv, fs>>

Next ==
    \/ CheckArgs
    \/ NextEntry
    \/ ReadText
    \/ Substitute
    \/ WriteOpen
    \/ WriteFlush
    \/ PrintUpdated
    \/ Finish
    \/ Rerun

Spec == Init /\ [][Next]_vars

SpecText == InitText /\ [][Next]_vars

(* ------------------------ what the claims speak of --------------------- *)
\* The occurrences of a version tag in t, stated without scanning: a tag
\* starts at s when s begins a run of asterisks and the run is followed by
\* optional whitespace, the literal, at least one whitespace character and at
\* least one token character; m is where the version token starts, e the
\* index after its last character.
TagSpans(t) ==
    { sp \in [s : 1..Len(t), m : 1..Len(t), e : 1..(Len(t) + 1)] :
        /\ t[sp.s] = "*"
        /\ (sp.s = 1 \/ t[sp.s - 1] # "*")
        /\ sp.s < sp.m /\ sp.m < sp.e
        /\ \E a \in (sp.s + 1)..sp.m : \E b \in a..sp.m :
              /\ \A k \in sp.s..(a - 1) : t[k] = "*"
              /\ \A k \in a..(b - 1) : t[k] \in Spaces
              /\ t[b] = Literal
              /\ b + 1 < sp.m
              /\ \A k \in (b + 1)..(sp.m - 1) : t[k] \in Spaces
        /\ \A k \in sp.m..(sp.e - 1) : t[k] \in TokenChars
        /\ (sp.e = Len(t) + 1 \/ t[sp.e] \notin TokenChars) }

RECURSIVE Growth(_, _)
\* by how much replacing the tokens of the spans S by v lengthens the text
Growth(S, v) ==
    IF S = {} THEN 0
    ELSE LET sp == CHOOSE x \in S : TRUE
         IN (Len(v) - (sp.e - sp.m)) + Growth(S \ {sp}, v)

\* r is t with the version token of every tag replaced by v and every other
\* character, group 1 of each tag included, kept in place
IsSubstitution(t, v, r) ==
    LET spans == TagSpans(t)
        Before(k) == {sp \in spans : sp.e <= k}
        InToken(k) == \E sp \in spans : sp.m <= k /\ k < sp.e
    IN /\ Len(r) = Len(t) + Growth(spans, v)
       /\ \A k \in 1..Len(t) :
             ~InToken(k) => r[k + Growth(Before(k), v)] = t[k]
       /\ \A sp \in spans : \A j \in 1..Len(v) :
             r[sp.m + Growth(Before(sp.m), v) + j - 1] = v[j]

\* how many times the line l stands in standard output
Lines(l) == Cardinality({i \in 1..Len(out) : out[i] = l})

\* no line of standard output names the path p
Silent(p) == \A i \in 1..Len(out) : out[i].path # p

\* the version argument is a non-empty string of [\w\.\-] characters
IsToken(v) == v # <<>> /\ \A k \in 1..Len(v) : v[k] \in TokenChars

(* ------------------------------- C1 ------------------------------------ *)
\* C1: once an eligible file has been read and written back, its content on
\* disk is its original content with the version token of every tag replaced
\* by the new version string and everything else, group 1 included, unchanged.
C1_WrittenIsOriginalSubstituted ==
    pc = "print" => IsSubstitution(start[cur].data, new_version, fs[cur].data)

\* The same statement about the decoded text instead of the bytes on disk:
\* new_text is text with every token replaced (what subn and replacer do).
DecodedTextSubstituted ==
    pc \in {"write", "flush", "print"} => IsSubstitution(text, new_version, new_text)

\* The bytes on disk differ from the original outside the tokens only where
\* the original holds a carriage return.
WrittenDiffersOnlyByNewlines ==
    (pc = "print" /\ \A k \in 1..Len(start[cur].data) : start[cur].data[k] # "CR")
        => IsSubstitution(start[cur].data, new_version, fs[cur].data)

(* ------------------------------- C3 ------------------------------------ *)
\* C3: an eligible file whose text holds no version tag is never opened for
\* writing, keeps its bytes, and gets no "Updated" line.
C3_NoMatchNoWrite ==
    \A f \in DOMAIN fs :
        (/\ Eligible(f)
         /\ read_text(start[f]).ok
         /\ TagSpans(read_text(start[f]).text) = {})
        => /\ f \notin writes
           /\ fs[f] = start[f]
           /\ Lines(UpdatedLine(f)) = 0

\* a file that holds the literal and an asterisk but no complete tag has been
\* read and the run is over
C3_Witness ==
    /\ pc = "exit" /\ exit_status = 0
    /\ \E f \in reads :
          /\ TagSpans(read_text(start[f]).text) = {}
          /\ \E k \in 1..Len(start[f].data) : start[f].data[k] = Literal
          /\ \E k \in 1..Len(start[f].data) : start[f].data[k] = "*"

(* ------------------------------- C4 ------------------------------------ *)
\* C4: at the end of a second run with the same argument no file has been
\* written and every file holds what it held after the first run.
C4_SecondRunWritesNothing ==
    (pc = "exit" /\ run = 2 /\ Len(argv) = 1) => (writes = {} /\ fs = start)

\* C4 as amended: when the version argument is a non-empty string of token
\* characters, a second run with the same argument finds every tag again and
\* writes again every file the first run wrote that it visits, with the same
\* content: each file written by the first run holds after the second run
\* what it held after the first, and so does every file when the first run
\* ended with status 0.
C4_SecondRunRewritesSameContent ==
    (pc = "exit" /\ run >= 2 /\ Len(argv) = 1 /\ IsToken(argv[1]))
    => /\ \A f \in prev_writes : fs[f] = start[f] /\ (f \in seen => f \in writes)
       /\ prev_status = 0 => (fs = start /\ writes = prev_writes)

\* a second run with a token argument has rewritten a file the first run wrote
C4_Witness ==
    /\ pc = "exit" /\ run = 2 /\ Len(argv) = 1 /\ IsToken(argv[1])
    /\ prev_status = 0 /\ exit_status = 0
    /\ prev_writes # {} /\ writes = prev_writes
    /\ \E f \in writes : TagSpans(fs[f].data) # {}

\* Without the restriction to token arguments the content can change again.
AnyArgumentSameContent ==
    (pc = "exit" /\ run >= 2 /\ Len(argv) = 1) => fs = start


(* ------------------------------- C2 ------------------------------------ *)
\* C2: an entry whose suffix is not one of the listed extensions is never
\* read, never written, keeps its content and is named by no output line.
C2_OtherSuffixUntouched ==
    \A f \in DOMAIN fs :
        Suffix(f) \notin file_exts
        => /\ f \notin reads
           /\ f \notin writes
           /\ fs[f] = start[f]
           /\ Silent(f)

\* a complete run has walked past a writable file that holds a tag and whose
\* name ends in the characters of a listed extension without having it as
\* its suffix, and has updated another file
C2_Witness ==
    /\ pc = "exit" /\ exit_status = 0 /\ writes # {}
    /\ \E f \in seen :
          /\ Suffix(f) \notin file_exts
          /\ EligibleEndsWith(f)
          /\ fs[f] = [kind |-> "file", perm |-> "rw", data |-> TagChunk]

(* ------------------------------- C5 ------------------------------------ *)
\* the loop body is at work on the entry f
InProgress(f) == f = cur /\ pc \in {"read", "subn", "write", "flush", "print"}

\* C5: a file whose read failed is not written, keeps its content and has
\* exactly one "Skipped (read error)" line and no other line; the failure does
\* not end the run (a run never ends on an entry whose read failed); and every
\* readable, writable eligible file with a tag that the walk has finished with
\* has been rewritten with the new version and reported, whatever failed to
\* be read before it.
C5_ReadErrorSkipsAndContinues ==
    /\ \A f \in reads :
          ~read_text(start[f]).ok
          => /\ f \notin writes
             /\ fs[f] = start[f]
             /\ Lines(SkippedLine(f)) = 1
             /\ Lines(UpdatedLine(f)) = 0
    /\ (pc = "exit" /\ cur \in reads /\ ~read_text(start[cur]).ok)
          => (exit_status = 0 /\ seen = DOMAIN fs)
    /\ \A g \in seen :
          (/\ ~InProgress(g)
           /\ Eligible(g)
           /\ read_text(start[g]).ok
           /\ TagSpans(read_text(start[g]).text) # {}
           /\ start[g].perm = "rw")
          => /\ g \in writes
             /\ IsSubstitution(read_text(start[g]).text, argv[1], read_text(fs[g]).text)
             /\ Lines(UpdatedLine(g)) = 1

\* standard output is a skip line for a file of undecodable bytes followed by
\* an update line for another file, and the run ended with status 0
C5_Witness ==
    /\ pc = "exit" /\ exit_status = 0
    /\ Len(out) = 2
    /\ out[1].kind = "Skipped" /\ start[out[1].path].data = <<"BAD">>
    /\ start[out[1].path].kind = "file"
    /\ out[2].kind = "Updated" /\ out[2].path # out[1].path

(* ------------------------------- C6 ------------------------------------ *)
\* C6: with no argument, or with two or more, nothing is enumerated, read or
\* written, and the run ends with the usage line as its only output and
\* status 1.
C6_WrongArityTouchesNothing ==
    Len(argv) # 1
    => /\ pc \in {"start", "exit"}
       /\ seen = {} /\ reads = {} /\ writes = {}
       /\ fs = start
       /\ pc = "exit" => (out = <<UsageLine>> /\ exit_status = 1)

\* a run with two arguments has ended in a tree that holds a writable file
\* with a tag
C6_Witness ==
    /\ pc = "exit" /\ Len(argv) = 2
    /\ \E f \in DOMAIN fs :
          Eligible(f) /\ fs[f] = [kind |-> "file", perm |-> "rw", data |-> TagChunk]

(* ------------------------------- C7 ------------------------------------ *)
\* C7: a run with exactly one argument ends with status 0, after the walk has
\* visited every entry.
C7_OneArgumentExitsZero ==
    (pc = "exit" /\ Len(argv) = 1) => (exit_status = 0 /\ seen = DOMAIN fs)

\* A run with one argument ends with another status only when a file with a
\* tag could not be opened for writing.
NonZeroExitOnlyOnWriteError ==
    (pc = "exit" /\ Len(argv) = 1 /\ exit_status # 0)
    => /\ exit_status = 1
       /\ fs[cur].perm # "rw"
       /\ TagSpans(read_text(fs[cur]).text) # {}

(* ------------------------------- C8 ------------------------------------ *)
\* C8: a directory is never read or written and no output line names it.
C8_DirectoriesSkippedSilently ==
    \A f \in DOMAIN fs :
        fs[f].kind = "dir" => (f \notin reads /\ f \notin writes /\ Silent(f))

\* Directories whose suffix is not a listed extension are skipped silently.
OtherDirectoriesSkippedSilently ==
    \A f \in DOMAIN fs :
        (fs[f].kind = "dir" /\ ~Eligible(f))
        => (f \notin reads /\ f \notin writes /\ Silent(f))

(* ------------------------------- C9 ------------------------------------ *)
\* f is a regular file with a listed extension
Candidate(f) == start[f].kind = "file" /\ Eligible(f)

\* the lines the claim allows for the entry f
LinesAsClaimed(f) ==
    LET r == read_text(start[f])
    IN /\ Lines(UpdatedLine(f)) = (IF f \in writes THEN 1 ELSE 0)
       /\ f \in writes <=> (Candidate(f) /\ r.ok /\ TagSpans(r.text) # {})
       /\ Lines(SkippedLine(f)) = (IF Candidate(f) /\ ~r.ok THEN 1 ELSE 0)

\* C9: at the end of a run with one argument, each entry has one "Updated"
\* line if it was written and none otherwise, it was written exactly when it
\* is a regular eligible file with at least one tag, and it has one "Skipped"
\* line if it is a regular eligible file whose read failed and none otherwise.
C9_OneLinePerOutcome ==
    (pc = "exit" /\ Len(argv) = 1) => \A f \in DOMAIN fs : LinesAsClaimed(f)

\* The same holds of every entry that is not a directory, in every run that
\* no write error ended.
OneLinePerOutcomeApartFromDirectories ==
    (pc = "exit" /\ Len(argv) = 1 /\ exit_status = 0)
    => \A f \in DOMAIN fs : start[f].kind # "dir" => LinesAsClaimed(f)

(* ------------------------------- C10 ----------------------------------- *)
\* what the script writes to a file whose content was d
Substituted(d) == WriteNewlines(subn(UniversalNewlines(d), argv[1]).text)

\* C10: during a run every visited file holds its original content or its
\* fully substituted content, and every file not yet visited its original
\* content.
C10_OriginalOrSubstituted ==
    Len(argv) = 1
    => \A f \in DOMAIN fs :
          IF f \in seen
          THEN fs[f].data \in {start[f].data, Substituted(start[f].data)}
          ELSE fs[f] = start[f]

\* C10 as amended: files are processed one at a time, so at most the current
\* file is between its read and the end of its write; that file is empty
\* while its write is under way (opened and truncated, data not yet written);
\* every other visited file holds its fully substituted content if it was
\* written and its original content if not, and every file not yet visited
\* its original content.
C10_OriginalOrSubstitutedOrBeingWritten ==
    Len(argv) = 1
    => /\ writes \subseteq reads /\ reads \subseteq seen
       /\ \A f \in DOMAIN fs :
             IF f = cur /\ pc = "flush"
             THEN fs[f].data = <<>> /\ f \in writes
             ELSE IF f \in writes
                  THEN fs[f].data = Substituted(start[f].data)
                  ELSE fs[f] = start[f]

\* one file has been rewritten and the next one is being read
C10_Witness ==
    /\ pc = "read" /\ writes # {} /\ cur \notin writes
    /\ \E f \in writes : fs[f].data # start[f].data
    /\ fs[cur].data = TagChunk


====
